---- MODULE Spec2Model ----
(***************************************************************************)
(* Checkpoint save/load of utils/train_utils.py.                           *)
(*                                                                         *)
(* save_checkpoint keeps its bookkeeping (last_step, best_step,            *)
(* best_score) as attributes of the function object; load_checkpoint       *)
(* restores two of them from a record on disk.  The model has the          *)
(* attribute dictionary of the function object, the checkpoint directory   *)
(* and its files, and the argparse namespace the calls receive.            *)
(*                                                                         *)
(* Scores are floats in the source.  Only their order matters to the code, *)
(* so the model embeds them in the integers: 0..MaxScore are the finite    *)
(* scores, PosInf = float("inf") lies above and NegInf = float("-inf")     *)
(* below all of them.                                                      *)
(***************************************************************************)
EXTENDS Integers, FiniteSets, Sequences, TLC

MaxStep == 1
MaxScore == 1
MaxInterval == 2
MaxCalls == 2

NegInf == 0 - 1
PosInf == MaxScore + 1

Steps == 0..MaxStep
Scores == NegInf..PosInf
Modes == {"min", "max"}

VARIABLES
    args,        \* the argparse namespace: no_save, save_interval, step_checkpoints
    attrs,       \* attributes of the function object save_checkpoint
    dirExists,   \* args.checkpoint_dir exists
    disk,        \* files of args.checkpoint_dir: name -> record
    calls,       \* number of save_checkpoint calls made so far
    call,        \* the latest call and its arguments
    outcome,     \* how the latest call ended
    written,     \* names of the files the latest call wrote
    snap,        \* per file: the attributes in effect when it was written
    hist,        \* the save calls of the running process
    firstRun     \* no process restart yet

vars == <<args, attrs, dirExists, disk, calls, call, outcome, written, snap, hist, firstRun>>

----------------------------------------------------------------------------
(* Python helpers *)

Max(a, b) == IF a >= b THEN a ELSE b

HasAttr(a, name) == name \in DOMAIN a

GetAttr(a, name, default) == IF name \in DOMAIN a THEN a[name] ELSE default

SetAttr(a, name, v) ==
    [n \in (DOMAIN a) \cup {name} |-> IF n = name THEN v ELSE a[n]]

NoAttrs == [n \in {} |-> 0]

----------------------------------------------------------------------------
(* File names under args.checkpoint_dir *)

BestFile == "checkpoint_best.pt"
LastFile == "checkpoint_last.pt"
StepFile(step) == "checkpoint" \o ToString(step) \o ".pt"

StepFiles == {StepFile(s) : s \in Steps}
(* a restore_file that is None or names no file *)
NoRestoreFile == "missing.pt"

----------------------------------------------------------------------------
(* save_checkpoint *)

LastStepDefault == 0 - 1

NewLastStepAssign(last_step, step) == step

NewLastStep(last_step, step) == Max(last_step, step)

DefaultScoreSwapped(mode) == IF mode = "min" THEN NegInf ELSE PosInf

DefaultScore(mode) == IF mode = "min" THEN PosInf ELSE NegInf

ImprovesNonStrict(score, best_score, mode) ==
    (score <= best_score /\ mode = "min") \/ (score >= best_score /\ mode = "max")

Improves(score, best_score, mode) ==
    (score < best_score /\ mode = "min") \/ (score > best_score /\ mode = "max")

SaveGateNoInterval(a, step) == ~a.no_save

SaveGate(a, step) == ~a.no_save /\ step % a.save_interval = 0

(* "best_score" is written with getattr(..., None); None lies outside Scores *)
None == PosInf + 1

StateDictStepAsLast(step, score, fa) ==
    [step |-> step, score |-> score, last_step |-> step,
     best_step |-> fa["best_step"], best_score |-> GetAttr(fa, "best_score", None)]

StateDict(step, score, fa) ==
    [step |-> step, score |-> score, last_step |-> fa["last_step"],
     best_step |-> fa["best_step"], best_score |-> GetAttr(fa, "best_score", None)]

WriteStep(a) == a.step_checkpoints

WriteBestNonStrict(score, best_score, mode) ==
    (score <= best_score /\ mode = "min") \/ (score >= best_score /\ mode = "max")

WriteBest(score, best_score, mode) ==
    (score < best_score /\ mode = "min") \/ (score > best_score /\ mode = "max")

WriteLastNonStrict(step, last_step) == step >= last_step

WriteLast(step, last_step) == step > last_step

Targets(a, step, score, mode, last_step, best_score) ==
    (IF WriteStep(a) THEN {StepFile(step)} ELSE {})
    \cup (IF WriteBest(score, best_score, mode) THEN {BestFile} ELSE {})
    \cup (IF WriteLast(step, last_step) THEN {LastFile} ELSE {})

TorchSave(d, names, state_dict) ==
    [f \in (DOMAIN d) \cup names |-> IF f \in names THEN state_dict ELSE d[f]]

NextHist(h, score, mode, prev) ==
    [saves  |-> h.saves + 1,
     loads  |-> h.loads,
     allMin |-> h.allMin /\ mode = "min",
     dec    |-> h.dec /\ (h.saves = 0 \/ score < prev),
     nondec |-> h.nondec /\ (h.saves = 0 \/ score >= prev)]

save_checkpoint(step, score, mode) ==
    LET last_step     == GetAttr(attrs, "last_step", LastStepDefault)
        a1            == SetAttr(attrs, "last_step", NewLastStep(last_step, step))
        default_score == DefaultScore(mode)
        best_score    == GetAttr(a1, "best_score", default_score)
        a2            == IF Improves(score, best_score, mode)
                         THEN SetAttr(SetAttr(a1, "best_step", step), "best_score", score)
                         ELSE a1
        gate          == SaveGate(args, step)
        raises        == gate /\ ~HasAttr(a2, "best_step")
        names         == IF gate /\ ~raises
                         THEN Targets(args, step, score, mode, last_step, best_score)
                         ELSE {}
    IN  /\ calls < MaxCalls
        /\ attrs' = a2
        /\ dirExists' = (dirExists \/ gate)
        /\ disk' = IF names = {} THEN disk ELSE TorchSave(disk, names, StateDict(step, score, a2))
        /\ written' = names
        /\ outcome' = IF raises THEN "AttributeError" ELSE "ok"
        /\ snap' = IF names = {} THEN snap
                   ELSE TorchSave(snap, names,
                          [last_step |-> a2["last_step"], best_score |-> a2["best_score"],
                           first |-> attrs = NoAttrs])
        /\ hist' = NextHist(hist, score, mode, call.score)
        /\ calls' = calls + 1
        /\ call' = [op |-> "save", step |-> step, score |-> score, mode |-> mode, file |-> ""]
        /\ UNCHANGED <<args, firstRun>>

----------------------------------------------------------------------------
(* load_checkpoint *)

LoadAttrs(fa, state_dict) ==
    SetAttr(SetAttr(fa, "best_score", state_dict.best_score),
            "last_step", state_dict.last_step)

load_checkpoint(restore_file) ==
    /\ attrs' = IF restore_file \in DOMAIN disk
                THEN LoadAttrs(attrs, disk[restore_file])
                ELSE attrs
    /\ written' = {}
    /\ outcome' = "ok"
    /\ hist' = [hist EXCEPT !.loads = TRUE]
    /\ call' = [op |-> "load", step |-> 0, score |-> 0, mode |-> "", file |-> restore_file]
    /\ UNCHANGED <<args, dirExists, disk, snap, firstRun, calls>>

----------------------------------------------------------------------------
(* A new process: the function object has no attributes, the files stay *)

NoHist == [saves |-> 0, loads |-> FALSE, allMin |-> TRUE, dec |-> TRUE, nondec |-> TRUE]

NoCall == [op |-> "none", step |-> 0, score |-> 0, mode |-> "", file |-> ""]

Restart ==
    /\ attrs # NoAttrs
    /\ attrs' = NoAttrs
    /\ written' = {}
    /\ outcome' = "ok"
    /\ hist' = NoHist
    /\ firstRun' = FALSE
    /\ call' = [NoCall EXCEPT !.op = "restart"]
    /\ UNCHANGED <<args, dirExists, disk, snap, calls>>

----------------------------------------------------------------------------

Init ==
    /\ args \in [no_save : BOOLEAN, save_interval : 1..MaxInterval, step_checkpoints : BOOLEAN]
    /\ attrs = NoAttrs
    /\ dirExists = FALSE
    /\ disk = NoAttrs
    /\ calls = 0
    /\ call = NoCall
    /\ outcome = "ok"
    /\ written = {}
    /\ snap = NoAttrs
    /\ hist = NoHist
    /\ firstRun = TRUE

Save == \E step \in Steps, score \in Scores, mode \in Modes : save_checkpoint(step, score, mode)

Load == \E restore_file \in (DOMAIN disk) \cup {NoRestoreFile} : load_checkpoint(restore_file)

Next == Save \/ Load \/ Restart

Spec == Init /\ [][Next]_vars

----------------------------------------------------------------------------
(* Vocabulary of the properties.  A step of the behaviour is a             *)
(* save_checkpoint call exactly when it increments calls; the call's       *)
(* arguments are then call'.step, call'.score and call'.mode, and the      *)
(* unprimed variables are the state the call started from.                 *)

SaveCall == calls' = calls + 1

Qualifies(step) == ~args.no_save /\ step % args.save_interval = 0

PrevLastStep == IF "last_step" \in DOMAIN attrs THEN attrs["last_step"] ELSE 0 - 1

PrevBest(mode) ==
    IF "best_score" \in DOMAIN attrs THEN attrs["best_score"]
    ELSE IF mode = "min" THEN PosInf ELSE NegInf

StrictlyBetter(score, best, mode) ==
    \/ mode = "min" /\ score < best
    \/ mode = "max" /\ score > best

BestAttrs(a) == [n \in (DOMAIN a) \cap {"best_score", "best_step"} |-> a[n]]

----------------------------------------------------------------------------
(* C1: a save_checkpoint call with args.no_save set, or with a step that   *)
(* is not a multiple of args.save_interval, does no I/O: it writes no file,*)
(* leaves every file as it was and does not create the checkpoint          *)
(* directory.                                                              *)
C1_NoIOWhenGated ==
    [][(SaveCall /\ (args.no_save \/ call'.step % args.save_interval # 0))
          => (written' = {} /\ disk' = disk /\ dirExists' = dirExists)]_vars

C1_Witness ==
    /\ call.op = "save"
    /\ ~args.no_save
    /\ call.step % args.save_interval # 0
    /\ disk # NoAttrs
    /\ written = {}

(* C2: after every save_checkpoint call the hidden last_step is the        *)
(* maximum of the last_step before the call (-1 when there is none yet)    *)
(* and the call's step, whether or not the call writes a file.             *)
C2_LastStepIsMax ==
    [][SaveCall
          => /\ "last_step" \in DOMAIN attrs'
             /\ attrs'["last_step"] >= PrevLastStep
             /\ attrs'["last_step"] = (IF PrevLastStep >= call'.step
                                        THEN PrevLastStep ELSE call'.step)]_vars

C2_Witness ==
    /\ call.op = "save"
    /\ written = {}
    /\ outcome = "ok"
    /\ call.step < attrs["last_step"]

(* C3: a save_checkpoint call whose score is not strictly better, under    *)
(* the call's mode, than the best_score held before the call leaves        *)
(* best_score and best_step unchanged.                                     *)
C3_BestChangesOnlyOnImprovement ==
    [][(SaveCall /\ ~StrictlyBetter(call'.score, PrevBest(call'.mode), call'.mode))
          => BestAttrs(attrs') = BestAttrs(attrs)]_vars

C3_Witness ==
    /\ call.op = "save"
    /\ outcome = "ok"
    /\ "best_step" \in DOMAIN attrs
    /\ attrs["best_score"] = call.score
    /\ attrs["best_step"] # call.step

(* C4: a save_checkpoint call writes checkpoint_last.pt only when its step *)
(* strictly exceeds the last_step held before the call; the second of two  *)
(* consecutive save calls with the same step does not write it.            *)
C4_LastOnlyOnProgress ==
    [][SaveCall
          => /\ (LastFile \in written' => call'.step > PrevLastStep)
             /\ ((call.op = "save" /\ call'.step = call.step)
                    => LastFile \notin written')]_vars

C4_Witness ==
    /\ call.op = "save"
    /\ Qualifies(call.step)
    /\ written # {}
    /\ LastFile \notin written
    /\ LastFile \in DOMAIN disk
    /\ disk[LastFile].step = call.step

(* C5: with step_checkpoints set every save_checkpoint call at a           *)
(* qualifying step leaves checkpoint{step}.pt on disk, and no save call    *)
(* writes a checkpoint{step}.pt that already exists; with step_checkpoints *)
(* unset no checkpoint{step}.pt ever exists.                               *)
C5_StepFilesWrittenOnce ==
    [][SaveCall
          => /\ (args.step_checkpoints /\ Qualifies(call'.step))
                    => StepFile(call'.step) \in DOMAIN disk'
             /\ \A f \in StepFiles \cap DOMAIN disk : f \notin written'
             /\ ~args.step_checkpoints => StepFiles \cap DOMAIN disk' = {}]_vars

(* C6: after load_checkpoint of a file that save_checkpoint wrote, the     *)
(* hidden last_step and best_score are the ones that were in effect when   *)
(* the file was written; for a file written by the first save of a process *)
(* they are that call's step and score.                                    *)
C6_SaveLoadRoundTrip ==
    (call.op = "load" /\ call.file \in DOMAIN disk)
        => /\ GetAttr(attrs, "last_step", None) = snap[call.file].last_step
           /\ GetAttr(attrs, "best_score", None) = snap[call.file].best_score
           /\ snap[call.file].first
                 => /\ GetAttr(attrs, "last_step", None) = disk[call.file].step
                    /\ GetAttr(attrs, "best_score", None) = disk[call.file].score

C6_Witness ==
    /\ call.op = "load"
    /\ call.file \in DOMAIN disk
    /\ snap[call.file].first
    /\ ~firstRun
    /\ "best_step" \notin DOMAIN attrs
    /\ attrs["last_step"] = disk[call.file].step
    /\ attrs["best_score"] = disk[call.file].score

(* C7: in a process whose calls so far are all save_checkpoint calls with  *)
(* mode "min": while the scores are strictly decreasing every call sets    *)
(* best_score to its score and best_step to its step; while they are       *)
(* non-decreasing no call after the first changes best_score or best_step. *)
C7_MinSequences ==
    [][(SaveCall /\ hist'.allMin /\ ~hist'.loads)
          => /\ hist'.dec
                   => BestAttrs(attrs') = [n \in {"best_score", "best_step"} |->
                                            IF n = "best_score" THEN call'.score
                                                                ELSE call'.step]
             /\ (hist'.nondec /\ hist'.saves >= 2)
                   => BestAttrs(attrs') = BestAttrs(attrs)]_vars

(* C7, amended: as above, but in a strictly decreasing sequence it is      *)
(* every call with a score below +infinity that sets best_score and        *)
(* best_step; a first call with score +infinity sets neither.              *)
C7_MinSequencesBelowInf ==
    [][(SaveCall /\ hist'.allMin /\ ~hist'.loads)
          => /\ (hist'.dec /\ call'.score < PosInf)
                   => BestAttrs(attrs') = [n \in {"best_score", "best_step"} |->
                                            IF n = "best_score" THEN call'.score
                                                                ELSE call'.step]
             /\ (hist'.dec /\ call'.score = PosInf)
                   => BestAttrs(attrs') = NoAttrs
             /\ (hist'.nondec /\ hist'.saves >= 2)
                   => BestAttrs(attrs') = BestAttrs(attrs)]_vars

C7_Witness ==
    /\ call.op = "save"
    /\ hist.allMin /\ ~hist.loads /\ hist.dec
    /\ hist.saves >= 2
    /\ "best_step" \in DOMAIN attrs
    /\ attrs["best_score"] = call.score
    /\ attrs["best_step"] = call.step

(* C8: a save_checkpoint call at a qualifying step writes                  *)
(* checkpoint_best.pt, with this call's record, if and only if its score   *)
(* is strictly better under mode than the best_score held before the call, *)
(* whatever else the call writes.                                          *)
C8_BestWrittenIffImproved ==
    [][(SaveCall /\ Qualifies(call'.step))
          => /\ BestFile \in written'
                   <=> StrictlyBetter(call'.score, PrevBest(call'.mode), call'.mode)
             /\ BestFile \in written'
                   => /\ disk'[BestFile].step = call'.step
                      /\ disk'[BestFile].score = call'.score
                      /\ disk'[BestFile].best_step = call'.step
                      /\ disk'[BestFile].best_score = call'.score]_vars

C8_Witness ==
    /\ call.op = "save"
    /\ written = {BestFile}
    /\ LastFile \in DOMAIN disk
    /\ disk[BestFile].step = call.step
    /\ disk[LastFile].step # call.step \/ disk[LastFile].score # call.score

(* C9: every save_checkpoint call at a qualifying step finds best_step     *)
(* defined and completes.                                                  *)
C9_QualifyingSaveCompletes ==
    (call.op = "save" /\ Qualifies(call.step))
        => (outcome = "ok" /\ "best_step" \in DOMAIN attrs)

(* C10: in a process that only saves, when checkpoint_best.pt exists its   *)
(* step and score are the hidden best_step and best_score.                 *)
C10_BestFileIsHiddenBest ==
    (firstRun /\ ~hist.loads /\ ~args.no_save /\ BestFile \in DOMAIN disk)
        => /\ disk[BestFile].step = attrs["best_step"]
           /\ disk[BestFile].score = attrs["best_score"]

====
